---- MODULE Spec2Model ----
(***************************************************************************)
(* A model of connected-udp's ConnectedUdpSocket (src/src/connected_udp.rs) *)
(* together with the part of the host socket layer (std::net::UdpSocket)    *)
(* that its operations and its tests call.                                  *)
(*                                                                          *)
(* An OS socket is an open file description; a handle is one UdpSocket      *)
(* value (a file descriptor) that refers to it.  try_clone makes a second   *)
(* handle for the same OS socket.  A wrapper owns one handle and caches the *)
(* peer address it was built with.                                          *)
(***************************************************************************)
EXTENDS Naturals, Sequences, FiniteSets

\* ------------------------------------------------------------------ bounds
MaxLen == 2     \* longest payload and largest receive buffer
MaxNet == 1     \* datagrams in flight at once

\* The sockets of the tests: the receiver A, the sender B (the socket that is
\* wrapped) and a third party C.  Socket s is bound to the address named s.
Receiver   == "A"
Sender     == "B"
ThirdParty == "C"
Sock    == {Receiver, Sender, ThirdParty}
Addr    == Sock
NoAddr  == "none"
\* One UdpSocket value per socket, and the one that sender.try_clone() makes.
Spare   == "b2"
Handle  == {"a", "b", "c", Spare}
NoSock  == "none"
Payload == { [i \in 1..n |-> i] : n \in 1..MaxLen }
Caps    == 1..MaxLen

\* An error kind the host layer may return at any time to connect, send, recv.
HostErrs == {"ConnectionRefused"}

VARIABLES
  os,      \* os[s]: the OS socket: st, local address, associated peer
  hnd,     \* hnd[h]: the UdpSocket value h: st (owner) and the socket it names
  closes,  \* closes[h]: how many times handle h has been released
  wr,      \* wr[w]: the ConnectedUdpSocket built from handle w
  raw,     \* raw[w]: a borrow obtained from wr[w].as_ref() is outstanding
  net,     \* datagrams in flight
  ret      \* the last operation, its arguments and what it returned

vars == <<os, hnd, closes, wr, raw, net, ret>>

\* ----------------------------------------------------------------- results
NoDg == [src |-> NoAddr, dst |-> NoAddr, data |-> <<>>, sent |-> <<>>]

Ok(n, data, addr) == [ok |-> TRUE, err |-> "", n |-> n, data |-> data, addr |-> addr]
Err(e)            == [ok |-> FALSE, err |-> e, n |-> 0, data |-> <<>>, addr |-> NoAddr]
OkUnit            == Ok(0, <<>>, NoAddr)

\* op: the operation; h: the handle or wrapper it acted on; peer, cap: its
\* peer or buffer-size argument; pre: the socket's OS peer when a constructor
\* was called;
\* res: what it returned; host: what each host call it made returned; dg: the
\* datagram it sent or received.
Ret(op, h, peer, cap, pre, res, host, dg) ==
  [op |-> op, h |-> h, peer |-> peer, cap |-> cap, pre |-> pre, res |-> res,
   host |-> host, dg |-> dg]

Idle == Ret("idle", "none", NoAddr, 0, NoAddr, OkUnit, <<>>, NoDg)

Min(a, b) == IF a <= b THEN a ELSE b
Prefix(s, n) == SubSeq(s, 1, Min(n, Len(s)))

\* ------------------------------------------------------------- host layer
\* What std::net::UdpSocket does for the calls the wrapper forwards to it.
\* The address queries of an open socket do not fail, save peer_addr of an
\* unassociated one; connect, send and recv may fail at any time.  The
\* association filters what a receive call is handed, and connect on an
\* associated socket replaces the association.
SockOf(h)  == hnd[h].sock
PeerOf(h)  == os[SockOf(h)].peer
LocalOf(h) == os[SockOf(h)].local

\* UdpSocket::peer_addr: the associated peer, or NotConnected.
HostPeerAddr(h) ==
  IF PeerOf(h) = NoAddr THEN Err("NotConnected") ELSE Ok(0, <<>>, PeerOf(h))

\* UdpSocket::local_addr: the bound address.
HostLocalAddr(h) == Ok(0, <<>>, LocalOf(h))

\* UdpSocket::connect: what the host may answer.
HostConnectResults == {OkUnit} \cup { Err(e) : e \in HostErrs }

\* The OS sockets after connect(p) on h answered r.
OsAfterConnect(h, p, r) ==
  IF r.ok THEN [os EXCEPT ![SockOf(h)].peer = p] ELSE os

\* UdpSocket::send of `bytes`: what the host may answer.
HostSendResults(h, bytes) ==
  (IF PeerOf(h) = NoAddr THEN {Err("NotConnected")} ELSE {Ok(Len(bytes), <<>>, NoAddr)})
    \cup { Err(e) : e \in HostErrs }

\* A datagram reaches the network when its destination is an open socket's
\* address and there is room; otherwise it is lost, as UDP allows.
Deliverable(dst) == \E s \in Sock : os[s].st = "open" /\ os[s].local = dst

NetAfterSend(dg, r) ==
  IF r.ok /\ Deliverable(dg.dst) /\ Cardinality(net) < MaxNet
  THEN net \cup {dg} ELSE net

\* The datagrams the host hands to a receive call on h: those addressed to
\* the socket and, when the socket is associated, sent by its peer.
Eligible(h) ==
  { d \in net : d.dst = LocalOf(h) /\ (PeerOf(h) = NoAddr \/ d.src = PeerOf(h)) }

\* UdpSocket::recv / recv_from into a buffer of `cap` bytes: one eligible
\* datagram, cut to the buffer, or an error.  Each outcome is <<result, dg>>.
HostRecvOutcomes(h, cap) ==
  { <<Ok(Min(cap, Len(d.data)), Prefix(d.data, cap), d.src), d>> : d \in Eligible(h) }
    \cup { <<Err(e), NoDg>> : e \in HostErrs }

NetAfterRecv(o) == IF o[1].ok THEN net \ {o[2]} ELSE net

\* close(fd): the handle is released; the OS socket closes with its last
\* handle, and what was queued for it is discarded.
LastHandle(h) ==
  \A g \in Handle :
    (g # h /\ hnd[g].st \in {"caller", "wrapped"}) => hnd[g].sock # hnd[h].sock

OsAfterClose(h) ==
  IF LastHandle(h)
  THEN [os EXCEPT ![SockOf(h)].st = "closed", ![SockOf(h)].peer = NoAddr]
  ELSE os

NetAfterClose(h) ==
  IF LastHandle(h) THEN { d \in net : d.dst # LocalOf(h) } ELSE net

Release(h) ==
  /\ hnd' = [hnd EXCEPT ![h].st = "closed"]
  /\ closes' = [closes EXCEPT ![h] = @ + 1]
  /\ os' = OsAfterClose(h)
  /\ net' = NetAfterClose(h)

\* -------------------------------------------------------------------- Init
\* The tests' setup: every socket bound with UdpSocket::bind, its handle held
\* by the caller, nothing associated, no wrapper yet.
Init ==
  /\ os = [s \in Sock |-> [st |-> "open", local |-> s, peer |-> NoAddr]]
  /\ hnd = [h \in Handle |->
              CASE h = "a" -> [st |-> "caller", sock |-> Receiver]
                [] h = "b" -> [st |-> "caller", sock |-> Sender]
                [] h = "c" -> [st |-> "caller", sock |-> ThirdParty]
                [] OTHER   -> [st |-> "none", sock |-> NoSock]]
  /\ closes = [h \in Handle |-> 0]
  /\ wr = [w \in Handle |->
             [st |-> "none", socket |-> "none", peer |-> NoAddr, born |-> NoAddr]]
  /\ raw = [w \in Handle |-> FALSE]
  /\ net = {}
  /\ ret = Idle

IsCaller(h) == hnd[h].st = "caller"
Alive(w)    == wr[w].st = "alive"
\* The handles of the sender's socket that the caller holds.
IsSenders(h) == IsCaller(h) /\ SockOf(h) = Sender
\* The handle the caller passes to a constructor: the sender's first one; a
\* try_clone of it stays with the caller.
IsGiven(h)   == IsCaller(h) /\ h = "b"
\* The handles of the other two sockets, which stay unassociated.
IsOthers(h)  == IsCaller(h) /\ SockOf(h) # Sender

\* ------------------------------------------------- the caller's own sockets
\* sender.try_clone(): a second handle for the sender's OS socket.
TryClone(h) ==
  /\ IsSenders(h)
  /\ hnd[Spare].st = "none"
  /\ hnd' = [hnd EXCEPT ![Spare] = [st |-> "caller", sock |-> SockOf(h)]]
  /\ ret' = Idle
  /\ UNCHANGED <<os, closes, wr, raw, net>>

\* sender.connect(addr) on a handle the caller holds: an association made
\* outside the wrapper.
HConnect(h, p) ==
  /\ IsSenders(h)
  /\ \E r \in HostConnectResults :
       /\ os' = OsAfterConnect(h, p, r)
       /\ ret' = Idle
  /\ UNCHANGED <<hnd, closes, wr, raw, net>>

\* socket.send_to(bytes, dst) on the receiver's or the third party's handle.
HSendTo(h, bytes, dst) ==
  /\ IsOthers(h)
  /\ dst = Sender
  /\ LET dg == [src |-> LocalOf(h), dst |-> dst, data |-> bytes, sent |-> bytes]
     IN net' = NetAfterSend(dg, OkUnit)
  /\ ret' = Idle
  /\ UNCHANGED <<os, hnd, closes, wr, raw>>

\* socket.recv_from(&mut buf) on the receiver's or the third party's handle.
HRecvFrom(h, cap) ==
  /\ IsOthers(h)
  /\ \E o \in HostRecvOutcomes(h, cap) :
       /\ net' = NetAfterRecv(o)
       /\ ret' = Ret("recv_from", h, NoAddr, cap, NoAddr, o[1], <<o[1]>>, o[2])
  /\ UNCHANGED <<os, hnd, closes, wr, raw>>

\* The caller drops a handle of the sender's socket that it still holds.
HDrop(h) ==
  /\ IsSenders(h)
  /\ Release(h)
  /\ ret' = Idle
  /\ UNCHANGED <<wr, raw>>

\* ------------------------------------------------------ ConnectedUdpSocket
\* The tail shared by both constructors.  The host call answered r and left
\* the sockets as os1.  Ok: `Ok(Self { socket, peer })`, the handle moves into
\* the wrapper and `stored` becomes its peer.  Err: `?` returns the error and
\* the handle, moved into the call, is dropped there.  `born` remembers the
\* OS peer of the socket at the moment the wrapper came to exist.
Build(op, h, p, r, os1, stored, dropOnErr) ==
  /\ IF r.ok
     THEN /\ hnd' = [hnd EXCEPT ![h].st = "wrapped"]
          /\ wr' = [wr EXCEPT ![h] = [st |-> "alive", socket |-> h, peer |-> stored,
                                      born |-> os1[SockOf(h)].peer]]
          /\ os' = os1
          /\ UNCHANGED <<closes, net>>
     ELSE /\ IF dropOnErr THEN Release(h) ELSE UNCHANGED <<hnd, closes, os, net>>
          /\ UNCHANGED wr
  /\ ret' = Ret(op, h, p, 0, PeerOf(h), r, <<r>>, NoDg)
  /\ UNCHANGED raw

\* A bug: the wrapper stores the socket's local address as its peer.
Connect_StoresLocal(socket, peer) ==
  /\ IsGiven(socket)
  /\ \E r \in HostConnectResults :
       Build("connect", socket, peer, r, OsAfterConnect(socket, peer, r),
             LocalOf(socket), TRUE)

\* A bug: on a failed host connect the handle is neither dropped nor wrapped.
Connect_LeaksOnError(socket, peer) ==
  /\ IsGiven(socket)
  /\ \E r \in HostConnectResults :
       Build("connect", socket, peer, r, OsAfterConnect(socket, peer, r), peer, FALSE)

\* ConnectedUdpSocket::connect(socket, peer)
Connect(socket, peer) ==
  /\ IsGiven(socket)
  /\ \E r \in HostConnectResults :
       Build("connect", socket, peer, r, OsAfterConnect(socket, peer, r), peer, TRUE)

\* A bug: the conversion asks for the local address instead of the peer.
TryFrom_AsksLocal(socket) ==
  /\ IsGiven(socket)
  /\ LET r == HostLocalAddr(socket)
     IN Build("try_from", socket, NoAddr, r, os, r.addr, TRUE)

\* A bug: the conversion ignores the peer query's error.
TryFrom_Unchecked(socket) ==
  /\ IsGiven(socket)
  /\ LET r == HostPeerAddr(socket)
     IN Build("try_from", socket, NoAddr, Ok(0, <<>>, r.addr), os, r.addr, TRUE)

\* ConnectedUdpSocket::try_from(socket)
TryFrom(socket) ==
  /\ IsGiven(socket)
  /\ LET r == HostPeerAddr(socket)
     IN Build("try_from", socket, NoAddr, r, os, r.addr, TRUE)

\* local_addr(&self): self.socket.local_addr(), asked of the host each time.
LocalAddrOf(w) == HostLocalAddr(wr[w].socket)

LocalAddr(w) ==
  /\ Alive(w)
  /\ ret' = Ret("local_addr", w, NoAddr, 0, NoAddr, LocalAddrOf(w), <<LocalAddrOf(w)>>, NoDg)
  /\ UNCHANGED <<os, hnd, closes, wr, raw, net>>

\* peer_addr(&self): self.peer, the stored field; no host call, no failure.
PeerAddrOf(w) == wr[w].peer

PeerAddr(w) ==
  /\ Alive(w)
  /\ ret' = Ret("peer_addr", w, NoAddr, 0, NoAddr, Ok(0, <<>>, PeerAddrOf(w)), <<>>, NoDg)
  /\ UNCHANGED <<os, hnd, closes, wr, raw, net>>

\* UdpSocket::send(passed) on handle h, for the caller's bytes buf.
SocketSend(op, w, h, buf, passed) ==
  /\ \E r \in HostSendResults(h, passed) :
       LET dg == [src |-> LocalOf(h), dst |-> PeerOf(h), data |-> passed, sent |-> buf]
       IN /\ net' = NetAfterSend(dg, r)
          /\ ret' = Ret(op, w, NoAddr, 0, NoAddr, r, <<r>>,
                        IF r.ok THEN dg ELSE NoDg)
  /\ UNCHANGED <<os, hnd, closes, wr, raw>>

\* A bug: the last byte of the buffer is not passed on.
Send_DropsLastByte(w, buf) ==
  /\ Alive(w)
  /\ SocketSend("send", w, wr[w].socket, buf, SubSeq(buf, 1, Len(buf) - 1))

\* send(&self, buf)
Send(w, buf) ==
  /\ Alive(w)
  /\ SocketSend("send", w, wr[w].socket, buf, buf)

\* A bug: a failed host recv is tried once more and the second answer returned.
Recv_Retries(w, buf) ==
  /\ Alive(w)
  /\ \E o \in HostRecvOutcomes(wr[w].socket, buf), o2 \in HostRecvOutcomes(wr[w].socket, buf) :
       LET last == IF o[1].ok THEN o ELSE o2
       IN /\ net' = NetAfterRecv(last)
          /\ ret' = Ret("recv", w, NoAddr, buf, NoAddr,
                        [last[1] EXCEPT !.addr = NoAddr],
                        IF o[1].ok THEN <<o[1]>> ELSE <<o[1], o2[1]>>, last[2])
  /\ UNCHANGED <<os, hnd, closes, wr, raw>>

\* recv(&self, buf): buf stands for the buffer's length.  recv returns the
\* byte count alone, not the source address.
Recv(w, buf) ==
  /\ Alive(w)
  /\ \E o \in HostRecvOutcomes(wr[w].socket, buf) :
       /\ net' = NetAfterRecv(o)
       /\ ret' = Ret("recv", w, NoAddr, buf, NoAddr,
                     [o[1] EXCEPT !.addr = NoAddr], <<o[1]>>, o[2])
  /\ UNCHANGED <<os, hnd, closes, wr, raw>>

\* A bug: as_ref hands the socket over instead of lending it.
AsRef_MovesOut(w) ==
  /\ Alive(w)
  /\ ~raw[w]
  /\ raw' = [raw EXCEPT ![w] = TRUE]
  /\ hnd' = [hnd EXCEPT ![wr[w].socket].st = "caller"]
  /\ ret' = Ret("as_ref", w, NoAddr, 0, NoAddr, OkUnit, <<>>, NoDg)
  /\ UNCHANGED <<os, closes, wr, net>>

\* as_ref(&self) -> &UdpSocket: a borrow of the wrapper's socket begins.
AsRef(w) ==
  /\ Alive(w)
  /\ ~raw[w]
  /\ raw' = [raw EXCEPT ![w] = TRUE]
  /\ ret' = Ret("as_ref", w, NoAddr, 0, NoAddr, OkUnit, <<>>, NoDg)
  /\ UNCHANGED <<os, hnd, closes, wr, net>>

\* The handle the borrow refers to: &self.socket.
RawHandle(w) == wr[w].socket

\* The borrow ends; a reference owns nothing, so nothing is released.
RawEnd(w) ==
  /\ raw[w]
  /\ raw' = [raw EXCEPT ![w] = FALSE]
  /\ ret' = Idle
  /\ UNCHANGED <<os, hnd, closes, wr, net>>

\* raw.connect(p): UdpSocket::connect takes &self, so the borrow allows it.
RawConnect(w, p) ==
  /\ raw[w]
  /\ \E r \in HostConnectResults :
       /\ os' = OsAfterConnect(RawHandle(w), p, r)
       /\ ret' = Ret("raw_connect", w, NoAddr, 0, NoAddr, r, <<r>>, NoDg)
  /\ UNCHANGED <<hnd, closes, wr, raw, net>>

\* raw.send(buf)
RawSend(w, buf) ==
  /\ raw[w]
  /\ SocketSend("raw_send", w, RawHandle(w), buf, buf)

\* raw.peer_addr() and raw.local_addr()
RawPeerAddr(w) ==
  /\ raw[w]
  /\ LET r == HostPeerAddr(RawHandle(w))
     IN ret' = Ret("raw_peer_addr", w, NoAddr, 0, NoAddr, r, <<r>>, NoDg)
  /\ UNCHANGED <<os, hnd, closes, wr, raw, net>>

RawLocalAddr(w) ==
  /\ raw[w]
  /\ LET r == HostLocalAddr(RawHandle(w))
     IN ret' = Ret("raw_local_addr", w, NoAddr, 0, NoAddr, r, <<r>>, NoDg)
  /\ UNCHANGED <<os, hnd, closes, wr, raw, net>>

\* The wrapper goes out of scope: its only field with a destructor, the
\* socket, is dropped.  The borrow checker forbids it while a borrow lives.
DropWrapper(w) ==
  /\ Alive(w)
  /\ ~raw[w]
  /\ wr' = [wr EXCEPT ![w].st = "dropped"]
  /\ Release(wr[w].socket)
  /\ ret' = Idle
  /\ UNCHANGED raw

\* -------------------------------------------------------------------- Next
Next ==
  \/ \E h \in Handle : TryClone(h)
  \/ \E h \in Handle, p \in Addr : HConnect(h, p)
  \/ \E h \in Handle, b \in Payload, d \in Addr : HSendTo(h, b, d)
  \/ \E h \in Handle, c \in Caps : HRecvFrom(h, c)
  \/ \E h \in Handle : HDrop(h)
  \/ \E h \in Handle, p \in Addr : Connect(h, p)
  \/ \E h \in Handle : TryFrom(h)
  \/ \E w \in Handle : LocalAddr(w)
  \/ \E w \in Handle : PeerAddr(w)
  \/ \E w \in Handle, b \in Payload : Send(w, b)
  \/ \E w \in Handle, c \in Caps : Recv(w, c)
  \/ \E w \in Handle : AsRef(w)
  \/ \E w \in Handle : RawEnd(w)
  \/ \E w \in Handle, p \in Addr : RawConnect(w, p)
  \/ \E w \in Handle, b \in Payload : RawSend(w, b)
  \/ \E w \in Handle : RawPeerAddr(w)
  \/ \E w \in Handle : RawLocalAddr(w)
  \/ \E w \in Handle : DropWrapper(w)

Spec == Init /\ [][Next]_vars

\* ------------------------------------------------------------------ claims
WrapperOps == {"connect", "try_from", "send", "recv", "local_addr"}

\* C1: whenever a wrapper exists, its stored peer (what peer_addr() returns)
\* is the address its OS socket is associated with, whatever the caller did
\* through the wrapper, through the borrow from as_ref(), or through a clone.
C1_PeerIsOsPeer ==
  \A w \in Handle : Alive(w) => PeerAddrOf(w) = PeerOf(wr[w].socket)

\* C2: when connect(socket, peer) succeeds, peer_addr() of the wrapper it
\* returns is the supplied peer, and the wrapper holds that same socket, now
\* associated with that peer.
C2_ConnectStoresPeer ==
  (ret.op = "connect" /\ ret.res.ok) =>
    /\ Alive(ret.h)
    /\ PeerAddrOf(ret.h) = ret.peer
    /\ wr[ret.h].socket = ret.h
    /\ hnd[ret.h].st = "wrapped"
    /\ PeerOf(ret.h) = ret.peer

\* connect succeeded on a socket that was associated with another peer before.
C2_Witness ==
  /\ ret.op = "connect" /\ ret.res.ok
  /\ ret.pre # NoAddr /\ ret.pre # ret.peer
  /\ ret.peer # LocalOf(ret.h)

\* C3: try_from on a socket that was associated outside the wrapper succeeds,
\* and peer_addr() of the wrapper is the peer the OS reports for the socket.
C3_TryFromStoresOsPeer ==
  (ret.op = "try_from" /\ ret.pre # NoAddr) =>
    /\ ret.res.ok
    /\ Alive(ret.h)
    /\ PeerAddrOf(ret.h) = ret.pre
    /\ PeerAddrOf(ret.h) = HostPeerAddr(wr[ret.h].socket).addr

\* try_from has converted a socket associated with the receiver's address.
C3_Witness ==
  /\ ret.op = "try_from" /\ ret.pre = Receiver
  /\ Alive(ret.h) /\ hnd[ret.h].st = "wrapped"

\* C4: try_from on a socket that was never associated returns NotConnected
\* and builds no wrapper; no wrapper ever exists whose socket was
\* unassociated when the wrapper was built.
C4_TryFromUnassociatedFails ==
  /\ (ret.op = "try_from" /\ ret.pre = NoAddr) =>
       /\ ~ret.res.ok
       /\ ret.res.err = "NotConnected"
       /\ wr[ret.h].st = "none"
  /\ \A w \in Handle : wr[w].st # "none" => wr[w].born # NoAddr

\* try_from was called on the unassociated socket and failed.
C4_Witness ==
  ret.op = "try_from" /\ ret.pre = NoAddr /\ ~ret.res.ok /\ hnd[ret.h].st = "closed"

\* C5, as claimed: every datagram that left the sender's socket and that the
\* receiver takes with recv_from arrives with the bytes and the length that
\* were given to send, from the address the wrapper's local_addr() returns.
C5_RoundTrip ==
  (ret.op = "recv_from" /\ ret.res.ok /\ ret.dg.src = Sender) =>
    /\ ret.res.data = ret.dg.sent
    /\ ret.res.n = Len(ret.dg.sent)
    /\ \A w \in Handle : Alive(w) => ret.res.addr = LocalAddrOf(w).addr

\* C5, amended: the same, when the receiver's buffer is at least as long as
\* the datagram; a shorter buffer gets the first bytes that fit.
C5_RoundTripWhenBufferFits ==
  (ret.op = "recv_from" /\ ret.res.ok /\ ret.dg.src = Sender) =>
    /\ ret.cap >= Len(ret.dg.sent) =>
         (ret.res.data = ret.dg.sent /\ ret.res.n = Len(ret.dg.sent))
    /\ ret.cap < Len(ret.dg.sent) =>
         (ret.res.data = Prefix(ret.dg.sent, ret.cap) /\ ret.res.n = ret.cap)
    /\ \A w \in Handle : Alive(w) => ret.res.addr = LocalAddrOf(w).addr

\* The receiver took a longest datagram of the live wrapper's socket into a
\* buffer that holds it.
C5_Witness ==
  /\ ret.op = "recv_from" /\ ret.res.ok /\ ret.h = "a"
  /\ ret.dg.src = Sender /\ Len(ret.dg.sent) = MaxLen /\ ret.cap = MaxLen
  /\ \E w \in Handle : Alive(w) /\ PeerAddrOf(w) = Receiver /\ ~raw[w]

\* C6: recv on the wrapper returns only datagrams whose source is the
\* wrapper's peer, and a datagram of the peer that the buffer holds is
\* delivered with the bytes and the length that were sent.
C6_RecvOnlyFromPeer ==
  (ret.op = "recv" /\ ret.res.ok) =>
    /\ ret.dg.src = PeerAddrOf(ret.h)
    /\ ret.cap >= Len(ret.dg.sent) =>
         (ret.res.data = ret.dg.sent /\ ret.res.n = Len(ret.dg.sent))

\* C7: the handle borrowed with as_ref() is the wrapper's own socket: its
\* local and peer address are those local_addr() and peer_addr() return, and
\* a send through it leaves with the bytes and the source address that the
\* wrapper's send gives.
C7_RawHandleIsWrapperSocket ==
  /\ \A w \in Handle : raw[w] =>
       /\ HostLocalAddr(RawHandle(w)) = LocalAddrOf(w)
       /\ HostPeerAddr(RawHandle(w)) = Ok(0, <<>>, PeerAddrOf(w))
  /\ (ret.op = "raw_send" /\ ret.res.ok) =>
       /\ ret.dg.data = ret.dg.sent
       /\ ret.dg.src = LocalAddrOf(ret.h).addr
       /\ ret.dg.dst = PeerAddrOf(ret.h)

\* C8: while a wrapper is alive its socket field is the handle it was built
\* from, that handle is owned by the wrapper and has not been released, and
\* the OS socket is open, whatever was done through the borrow.
C8_BorrowKeepsSocket ==
  \A w \in Handle : Alive(w) =>
    /\ wr[w].socket = w
    /\ hnd[w].st = "wrapped"
    /\ SockOf(w) = Sender
    /\ os[SockOf(w)].st = "open"
    /\ closes[w] = 0

\* The borrow has re-associated the socket and the wrapper is still alive.
C8_Witness ==
  /\ ret.op = "raw_connect" /\ ret.res.ok
  /\ raw[ret.h] /\ Alive(ret.h)

\* C9: a handle given to a constructor is released exactly once on every
\* path: never twice; not while its wrapper is alive; when the wrapper is
\* destroyed; and at once, with no wrapper built, when construction fails.
C9_ReleasedExactlyOnce ==
  /\ \A h \in Handle :
       /\ closes[h] <= 1
       /\ (hnd[h].st = "closed") = (closes[h] = 1)
       /\ hnd[h].st = "wrapped" => Alive(h)
  /\ \A w \in Handle :
       /\ Alive(w) =>
            /\ hnd[wr[w].socket].st = "wrapped"
            /\ closes[wr[w].socket] = 0
            /\ os[SockOf(wr[w].socket)].st = "open"
       /\ wr[w].st = "dropped" =>
            /\ hnd[wr[w].socket].st = "closed"
            /\ closes[wr[w].socket] = 1
  /\ (ret.op \in {"connect", "try_from"} /\ ~ret.res.ok) =>
       /\ wr[ret.h].st = "none"
       /\ hnd[ret.h].st = "closed"
       /\ closes[ret.h] = 1

\* A wrapper was built and destroyed, and its handle released once, while the
\* caller's clone keeps the OS socket open.
C9_Witness ==
  \E w \in Handle :
    /\ wr[w].st = "dropped" /\ closes[wr[w].socket] = 1
    /\ hnd[Spare].st = "caller" /\ os[Sender].st = "open"

\* C10: a wrapper operation makes exactly one host call, and when that call
\* fails it returns the host's error as it is; a failed send, recv or
\* local_addr leaves the wrapper, its handle and its socket as they were,
\* alive and usable.
C10_ErrorsReturned ==
  ret.op \in WrapperOps =>
    /\ Len(ret.host) = 1
    /\ ~ret.host[1].ok => ret.res = ret.host[1]
    /\ ret.host[1].ok => ret.res.ok

C10_FailureKeepsWrapper ==
  (ret'.op \in {"send", "recv", "local_addr"} /\ ~ret'.res.ok) =>
    /\ wr' = wr /\ hnd' = hnd /\ os' = os /\ closes' = closes /\ net' = net
    /\ Alive(ret'.h)

====
